---- MODULE Spec2Model ----
(***************************************************************************)
(* Sleep-day snapshot construction of sleeping_beauty.core.sleep:          *)
(* core sleep selection, supplemental episodes, supplemental seconds,      *)
(* the stage timeline and the snapshot assembler.                          *)
(*                                                                         *)
(* Instants are integer seconds counted from 00:00 of day 0; a date is a   *)
(* day number.  Document ids are integers whose order stands for the       *)
(* order of the id strings.  An optional value is <<>> (None) or <<v>>.    *)
(***************************************************************************)
EXTENDS Integers, Sequences, FiniteSets, TLC

VARIABLES target_day, sleep_docs, pc, core_sleep, supplemental_episodes,
          supplemental_seconds, timeline, result

\* SleepJournalService.run and SleepDayProvider.get_snapshot: the vendor's
\* data, the range being processed, the loop variable, the position in the
\* run, what was printed, the calls made to the client, the provider's
\* score locals, and the outcomes of get_snapshot and of run.
VARIABLES vendor, sleep_context, current, journal_pc, stdout, requests,
          daily_sleep, readiness, snapshot, run_result

builder_vars == <<target_day, sleep_docs, pc, core_sleep, supplemental_episodes,
                  supplemental_seconds, timeline, result>>

journal_vars == <<vendor, sleep_context, current, journal_pc, stdout, requests,
                  daily_sleep, readiness, snapshot, run_result>>

\* OuraApiClient.iter_sleep / iter_daily_sleep_scores: the server's pages,
\* the iterator in use, its token local, the position in the page at hand,
\* the pages received, the requests sent, the items yielded, the position.
VARIABLES server, iterating, token, cursor, pages, sent, yielded, client_pc

client_vars == <<server, iterating, token, cursor, pages, sent, yielded,
                 client_pc>>

\* OuraAuth.get_access_token: the token file, the clock, the outcome of the
\* last call and the refresh tokens posted to the token endpoint.
VARIABLES storage, now, token_result, refresh_posts

auth_vars == <<storage, now, token_result, refresh_posts>>

outer_vars == <<journal_vars, client_vars, auth_vars>>

vars == <<builder_vars, outer_vars>>

\* ---------------------------------------------------------------- bounds
\* Largest number of documents in one fetched window.
MaxDocs == 3
\* Longest enumerated stage string.
MaxPhaseLen == 4

\* ---------------------------------------------------------------- helpers
None == <<>>
Some(v) == <<v>>
Val(o) == o[1]

SecondsPerDay == 24 * 60 * 60
At(d, h, m, s) == d * SecondsPerDay + h * 3600 + m * 60 + s

\* datetime.date(): the calendar day an instant falls on.
DateOf(t) == t \div SecondsPerDay

\* Python truthiness of an int, and `x or 0`.
Truthy(x) == x # 0
OrZero(x) == IF Truthy(x) THEN x ELSE 0

\* ---------------------------------------------------------------- inputs
\* A SleepDocument as SleepDocument.from_api builds it: every field is
\* present; the timestamps are parsed datetimes, the durations are ints.
Doc(i, d, ty, bs, be, tot, rem, deep, ph) ==
    [id |-> i, day |-> d, type |-> ty,
     bedtime_start |-> Some(bs), bedtime_end |-> Some(be),
     total_sleep_duration |-> tot, time_in_bed |-> be - bs,
     rem_sleep_duration |-> rem, deep_sleep_duration |-> deep,
     sleep_phase_5_min |-> ph]

\* Overnight sleep 22:00 day 0 -> 06:00 day 1, and a nap 13:00 -> 13:30 on
\* day 1, both tagged to day 1.
OvernightDoc ==
    Doc(1, 1, "long_sleep", At(0,22,0,0), At(1,6,0,0), 28800, 7200, 5400, None)
NapDoc ==
    Doc(4, 1, "rest", At(1,13,0,0), At(1,13,30,0), 1800, 0, 0, None)

\* The documents the vendor may return for days 0..2.
Pool ==
    { OvernightDoc,
      \* same shape, other document
      Doc(2, 1, "long_sleep", At(0,22,0,0), At(1,6,0,0), 28800, 7200, 5400, None),
      \* overnight, same duration, earlier start
      Doc(3, 1, "long_sleep", At(0,21,0,0), At(1,5,0,0), 28800, 3600, 3600, None),
      NapDoc,
      \* overnight 22:00 day 1 -> 06:00 day 2
      Doc(5, 2, "long_sleep", At(1,22,0,0), At(2,6,0,0), 28800, 7200, 5400, None),
      \* long sleep wholly inside day 1, longer than the overnight ones
      Doc(6, 1, "long_sleep", At(1,0,30,0), At(1,9,30,0), 30000, 6000, 6000, None),
      \* early nap 05:30 -> 05:50 on day 1
      Doc(7, 1, "late_nap", At(1,5,30,0), At(1,5,50,0), 1200, 0, 0, None),
      \* an episode without sleep
      Doc(8, 1, "rest", At(1,15,0,0), At(1,15,20,0), 0, 0, 0, None),
      \* an episode with a negative duration field
      Doc(9, 1, "rest", At(1,16,0,0), At(1,16,10,0), 0 - 60, 0, 0, None),
      \* evening nap ending exactly when the day-2 overnight sleep starts
      Doc(10, 1, "late_nap", At(1,21,30,0), At(1,22,0,0), 1500, 0, 0, None),
      \* short overnight with a stage string: timeline ends 270 s after bedtime_end
      Doc(11, 1, "sleep", At(0,23,54,30), At(1,0,0,0), 300, 100, 50,
          Some(<<"1", "2">>)),
      \* short overnight with a stage string: timeline ends 301 s after bedtime_end
      Doc(12, 2, "sleep", At(1,23,54,30), At(1,23,59,29), 250, 100, 50,
          Some(<<"2", "2">>)),
      \* long sleep ending exactly when the day-2 overnight sleep starts
      Doc(13, 1, "long_sleep", At(1,14,0,0), At(1,22,0,0), 27000, 5000, 4000,
          None),
      \* a second record of the 13:00 nap, cut short
      Doc(14, 1, "rest", At(1,13,0,0), At(1,13,20,0), 1000, 0, 0, None),
      \* a short sleep on day 2 whose stage shares are 1.5 % and 2.5 %
      Doc(15, 2, "sleep", At(2,1,0,0), At(2,1,10,0), 400, 6, 10, None) }

TargetDays == {1, 2}

Injective(f) == \A i, j \in DOMAIN f : i # j => f[i] # f[j]

\* A window is a list of distinct documents.
Windows ==
    UNION { { w \in [1..n -> Pool] : Injective(w) } : n \in 0..MaxDocs }

\* ---------------------------------------------------------------- results
Returned(v) == [raised |-> "none", value |-> Some(v)]
Raised(e) == [raised |-> e, value |-> None]
NotCalled == [raised |-> "not_called", value |-> None]

\* ------------------------------------------------ select_core_sleep
total_sleep_key(d) == OrZero(d.total_sleep_duration)

\* max(list, key=...): the first element whose key no element exceeds.
PyMax(s) ==
    s[CHOOSE i \in 1..Len(s) :
        /\ \A j \in 1..Len(s) : total_sleep_key(s[j]) <= total_sleep_key(s[i])
        /\ \A j \in 1..(i - 1) : total_sleep_key(s[j]) < total_sleep_key(s[i])]

overnight(docs, day) ==
    SelectSeq(docs, LAMBDA d :
        d.day = day /\ DateOf(Val(d.bedtime_start)) = day - 1)

\* A fallback list that forgets the day tag.
ending_today_unfiltered(docs, day) == docs

ending_today(docs, day) == SelectSeq(docs, LAMBDA d : d.day = day)

\* A selector that takes the longest episode tagged to the day, whether or
\* not it crosses midnight.
select_core_sleep_longest_of_day(docs, day) ==
    IF ending_today(docs, day) = <<>>
    THEN Raised("RuntimeError:no_sleep_episodes")
    ELSE Returned(PyMax(ending_today(docs, day)))

\* A selector that guesses from the whole window when nothing is tagged
\* to the day.
select_core_sleep_best_guess(docs, day) ==
    IF overnight(docs, day) # <<>>
    THEN Returned(PyMax(overnight(docs, day)))
    ELSE IF ending_today(docs, day) # <<>>
         THEN Returned(PyMax(ending_today(docs, day)))
         ELSE IF docs # <<>> THEN Returned(PyMax(docs))
              ELSE Raised("RuntimeError:no_sleep_episodes")

select_core_sleep(docs, day) ==
    IF overnight(docs, day) # <<>>
    THEN Returned(PyMax(overnight(docs, day)))
    ELSE IF ending_today(docs, day) = <<>>
         THEN Raised("RuntimeError:no_sleep_episodes")
         ELSE Returned(PyMax(ending_today(docs, day)))

\* ------------------------------------------------ supplemental sleep
\* Earlier long sleeps, counting one that ends exactly at the core's start.
previous_inclusive(core, docs) ==
    SelectSeq(docs, LAMBDA d :
        /\ d.id # core.id
        /\ d.type = "long_sleep"
        /\ d.bedtime_end # None
        /\ Val(d.bedtime_end) <= Val(core.bedtime_start))

previous(core, docs) ==
    SelectSeq(docs, LAMBDA d :
        /\ d.id # core.id
        /\ d.type = "long_sleep"
        /\ d.bedtime_end # None
        /\ Val(d.bedtime_end) < Val(core.bedtime_start))

\* The latest bedtime_end among the earlier long sleeps, or None.
previous_core_sleep_end(core, docs) ==
    IF previous(core, docs) = <<>>
    THEN None
    ELSE LET p == previous(core, docs)
         IN  Some(CHOOSE t \in { Val(p[i].bedtime_end) : i \in 1..Len(p) } :
                    \A i \in 1..Len(p) : Val(p[i].bedtime_end) <= t)

\* The loop body's filter: TRUE when the document is appended.
appended(d, core, prev_night_end) ==
    /\ d.id # core.id
    /\ Truthy(OrZero(d.total_sleep_duration))
    /\ d.bedtime_start # None /\ d.bedtime_end # None
    /\ ~(Val(d.bedtime_end) > Val(core.bedtime_start))
    /\ ~(prev_night_end # None /\ Val(d.bedtime_start) < Val(prev_night_end))

SupplementalSleepEpisode(d) ==
    [start |-> Val(d.bedtime_start), end |-> Val(d.bedtime_end),
     duration_seconds |-> d.total_sleep_duration]

\* list.sort(key=start): a stable insertion of e into the sorted list s.
RECURSIVE InsertByStart(_, _)
InsertByStart(e, s) ==
    IF s = <<>> THEN <<e>>
    ELSE IF e.start < Head(s).start THEN <<e>> \o s
    ELSE <<Head(s)>> \o InsertByStart(e, Tail(s))

\* A list left in window order.
SortByStart_unsorted(s) == s

RECURSIVE SortByStart(_)
SortByStart(s) ==
    IF s = <<>> THEN <<>>
    ELSE InsertByStart(s[Len(s)], SortByStart(SubSeq(s, 1, Len(s) - 1)))

RECURSIVE MapEpisodes(_)
MapEpisodes(s) ==
    IF s = <<>> THEN <<>>
    ELSE <<SupplementalSleepEpisode(Head(s))>> \o MapEpisodes(Tail(s))

build_supplemental_sleep_episodes(docs, core, day) ==
    LET prev_night_end == previous_core_sleep_end(core, docs)
    IN  SortByStart(MapEpisodes(
            SelectSeq(docs, LAMBDA d : appended(d, core, prev_night_end))))

RECURSIVE SumDurations(_)
SumDurations(s) ==
    IF s = <<>> THEN 0
    ELSE OrZero(Head(s).total_sleep_duration) + SumDurations(Tail(s))

compute_supplemental_sleep_seconds(docs, core_sleep_id, day) ==
    SumDurations(SelectSeq(docs, LAMBDA d :
        /\ d.day = day
        /\ d.id # core_sleep_id
        /\ OrZero(d.total_sleep_duration) > 0))

\* ------------------------------------------------ stage timeline
\* A map that takes "1" for light and "2" for deep.
SLEEP_STAGE_MAP_swapped(ch) ==
    CASE ch = "1" -> "light"
      [] ch = "2" -> "deep"
      [] ch = "3" -> "rem"
      [] ch = "4" -> "awake"
      [] OTHER -> "unknown"

\* A map that takes every other code for awake.
SLEEP_STAGE_MAP_unknown_awake(ch) ==
    CASE ch = "1" -> "deep"
      [] ch = "2" -> "light"
      [] ch = "3" -> "rem"
      [] ch = "4" -> "awake"
      [] OTHER -> "awake"

SLEEP_STAGE_MAP(ch) ==
    CASE ch = "1" -> "deep"
      [] ch = "2" -> "light"
      [] ch = "3" -> "rem"
      [] ch = "4" -> "awake"
      [] OTHER -> "unknown"

resolution == 5 * 60

SleepStageSegment(start, end, stage) ==
    [start |-> start, end |-> end, stage |-> stage]

\* A cursor that only advances on the codes the map knows.
bucket_time_recognized_only(start, phase_str, i) ==
    start + Cardinality({ j \in 1..i :
                            SLEEP_STAGE_MAP(phase_str[j]) # "unknown" }) * resolution

\* t = start + i * resolution, the time of the character at 0-based index i.
bucket_time(start, phase_str, i) == start + i * resolution

\* A final segment closed at the start of the last bucket.
final_end_at_last_bucket(start, phase_str) ==
    start + (Len(phase_str) - 1) * resolution

\* The end of the final segment.
final_end(start, phase_str) == start + Len(phase_str) * resolution

\* A scan that opens a segment for every recognized character.
stage_always_changed(stage, current_stage) == TRUE

\* stage != current_stage
stage_changed(stage, current_stage) == stage # current_stage

\* A scan in which an unknown code closes the running segment.
RECURSIVE ScanPhase_gap(_, _, _, _, _, _)
ScanPhase_gap(phase_str, start, i, current_stage, segment_start, segments) ==
    IF i >= Len(phase_str)
    THEN IF current_stage # "none"
         THEN Append(segments,
                     SleepStageSegment(segment_start,
                                       final_end(start, phase_str),
                                       current_stage))
         ELSE segments
    ELSE LET stage == SLEEP_STAGE_MAP(phase_str[i + 1])
             t == bucket_time(start, phase_str, i)
             closed == IF current_stage # "none"
                       THEN Append(segments,
                                   SleepStageSegment(segment_start, t,
                                                     current_stage))
                       ELSE segments
         IN  IF stage = "unknown"
             THEN ScanPhase_gap(phase_str, start, i + 1, "none", 0, closed)
             ELSE IF stage_changed(stage, current_stage)
             THEN ScanPhase_gap(phase_str, start, i + 1, stage, t, closed)
             ELSE ScanPhase_gap(phase_str, start, i + 1, current_stage,
                                segment_start, segments)

\* The for loop from 0-based index i on; current_stage "none" is None.
RECURSIVE ScanPhase(_, _, _, _, _, _)
ScanPhase(phase_str, start, i, current_stage, segment_start, segments) ==
    IF i >= Len(phase_str)
    THEN IF current_stage # "none"
         THEN Append(segments,
                     SleepStageSegment(segment_start,
                                       final_end(start, phase_str),
                                       current_stage))
         ELSE segments
    ELSE LET stage == SLEEP_STAGE_MAP(phase_str[i + 1])
             t == bucket_time(start, phase_str, i)
         IN  IF stage = "unknown"
             THEN ScanPhase(phase_str, start, i + 1, current_stage,
                            segment_start, segments)
             ELSE IF stage_changed(stage, current_stage)
             THEN ScanPhase(phase_str, start, i + 1, stage, t,
                            IF current_stage # "none"
                            THEN Append(segments,
                                        SleepStageSegment(segment_start, t,
                                                          current_stage))
                            ELSE segments)
             ELSE ScanPhase(phase_str, start, i + 1, current_stage,
                            segment_start, segments)

build_sleep_stage_timeline(core) ==
    IF core.sleep_phase_5_min = None \/ Val(core.sleep_phase_5_min) = <<>>
    THEN None
    ELSE Some([source |-> "sleep_phase_5_min",
               resolution_seconds |-> 300,
               segments |-> ScanPhase(Val(core.sleep_phase_5_min),
                                      Val(core.bedtime_start), 0, "none", 0,
                                      <<>>)])

\* ------------------------------------------------ snapshot assembler
\* round(): nearest integer of n / d for d > 0, an exact half to the even one.
PyRound(n, d) ==
    LET q == n \div d
        m == n % d
    IN  IF 2 * m < d THEN q
        ELSE IF 2 * m > d THEN q + 1
        ELSE IF q % 2 = 0 THEN q ELSE q + 1

pct(stage_seconds, core_total) ==
    IF core_total > 0 THEN Some(PyRound(100 * stage_seconds, core_total))
    ELSE None

\* The keyword-only parameters build_supplemental_sleep_episodes declares,
\* and the keywords build_sleep_day_snapshot passes to it.
supplemental_parameters == {"sleep_docs", "core_sleep", "target_day"}
supplemental_call_keywords == {"sleep_docs", "core_sleep_id", "target_day"}

\* A call by keywords binds when every keyword names a parameter and every
\* (required) parameter is given.
Binds(keywords, parameters) == keywords = parameters

\* The timeline end check: TRUE when the invariant RuntimeError is raised.
timeline_invariant_violated(tl, night_end) ==
    /\ tl # None
    /\ Val(tl).segments # <<>>
    /\ LET timeline_end == Val(tl).segments[Len(Val(tl).segments)].end
           delta == timeline_end - night_end
       IN  delta < 0 \/ delta >= 300

SleepDaySnapshot(day, core, supp_episodes, supp_seconds, tl) ==
    LET core_total == OrZero(core.total_sleep_duration)
        rem_seconds == OrZero(core.rem_sleep_duration)
        deep_seconds == OrZero(core.deep_sleep_duration)
    IN  [day |-> day,
         night_start |-> Val(core.bedtime_start),
         night_end |-> Val(core.bedtime_end),
         core_sleep_seconds |-> core_total,
         time_in_bed_seconds |-> OrZero(core.time_in_bed),
         rem_seconds |-> rem_seconds,
         deep_seconds |-> deep_seconds,
         rem_pct |-> pct(rem_seconds, core_total),
         deep_pct |-> pct(deep_seconds, core_total),
         supplemental_sleep_seconds |-> supp_seconds,
         total_sleep_24h_seconds |-> core_total + supp_seconds,
         timeline |-> tl,
         supplemental_episodes |-> supp_episodes]

build_sleep_day_snapshot(day, docs) ==
    LET sel == select_core_sleep(docs, day)
    IN  IF sel.raised # "none" THEN Raised(sel.raised)
        ELSE IF ~Binds(supplemental_call_keywords, supplemental_parameters)
        THEN Raised("TypeError:unexpected_keyword_argument")
        ELSE LET core == Val(sel.value)
                 supp_episodes == build_supplemental_sleep_episodes(docs, core, day)
                 supp_seconds == compute_supplemental_sleep_seconds(docs, core.id, day)
                 tl == build_sleep_stage_timeline(core)
             IN  IF timeline_invariant_violated(tl, Val(core.bedtime_end))
                 THEN Raised("RuntimeError:timeline_invariant")
                 ELSE Returned(SleepDaySnapshot(day, core, supp_episodes,
                                                supp_seconds, tl))

\* ------------------------------------------------ the service at rest
\* No day is being fetched.
NoVendorDay ==
    [sleep |-> <<>>, daily_sleep |-> <<>>, readiness |-> <<>>, fault |-> None]

\* SleepJournalService.run has not been called.
JournalIdle ==
    /\ vendor = NoVendorDay
    /\ sleep_context = [start_date |-> 0, end_date |-> 0, divider |-> FALSE]
    /\ current = 0
    /\ journal_pc = "off"
    /\ stdout = <<>>
    /\ requests = <<>>
    /\ daily_sleep = None
    /\ readiness = None
    /\ snapshot = NotCalled
    /\ run_result = NotCalled

\* No iterator has been created.
ClientIdle ==
    /\ server = <<>>
    /\ iterating = "none"
    /\ token = None
    /\ cursor = 0
    /\ pages = <<>>
    /\ sent = <<>>
    /\ yielded = <<>>
    /\ client_pc = "off"

\* No token is asked for.
AuthIdle ==
    /\ storage = None
    /\ now = 0
    /\ token_result = NotCalled
    /\ refresh_posts = <<>>

OuterIdle == JournalIdle /\ ClientIdle /\ AuthIdle

\* ---------------------------------------------------------------- machine
Init ==
    /\ target_day \in TargetDays
    /\ sleep_docs \in Windows
    /\ pc = "start"
    /\ core_sleep = NotCalled
    /\ supplemental_episodes = NotCalled
    /\ supplemental_seconds = NotCalled
    /\ timeline = NotCalled
    /\ result = NotCalled
    /\ OuterIdle

\* select_core_sleep(sleep_docs, target_day)
SelectCoreSleep ==
    /\ pc = "start"
    /\ core_sleep' = select_core_sleep(sleep_docs, target_day)
    /\ pc' = IF core_sleep'.raised = "none" THEN "selected" ELSE "failed"
    /\ UNCHANGED <<target_day, sleep_docs, supplemental_episodes,
                   supplemental_seconds, timeline, result>>
    /\ UNCHANGED outer_vars

\* build_supplemental_sleep_episodes(sleep_docs=, core_sleep=, target_day=)
BuildSupplementalSleepEpisodes ==
    /\ pc = "selected"
    /\ supplemental_episodes' =
           Returned(build_supplemental_sleep_episodes(
                        sleep_docs, Val(core_sleep.value), target_day))
    /\ pc' = "episodes"
    /\ UNCHANGED <<target_day, sleep_docs, core_sleep, supplemental_seconds,
                   timeline, result>>
    /\ UNCHANGED outer_vars

\* compute_supplemental_sleep_seconds(sleep_docs=, core_sleep_id=, target_day=)
ComputeSupplementalSleepSeconds ==
    /\ pc = "episodes"
    /\ supplemental_seconds' =
           Returned(compute_supplemental_sleep_seconds(
                        sleep_docs, Val(core_sleep.value).id, target_day))
    /\ pc' = "seconds"
    /\ UNCHANGED <<target_day, sleep_docs, core_sleep, supplemental_episodes,
                   timeline, result>>
    /\ UNCHANGED outer_vars

\* build_sleep_stage_timeline(core_sleep)
BuildSleepStageTimeline ==
    /\ pc = "seconds"
    /\ timeline' = Returned(build_sleep_stage_timeline(Val(core_sleep.value)))
    /\ pc' = "timeline"
    /\ UNCHANGED <<target_day, sleep_docs, core_sleep, supplemental_episodes,
                   supplemental_seconds, result>>
    /\ UNCHANGED outer_vars

\* build_sleep_day_snapshot(target_day=, sleep_docs=, ...), the whole call
BuildSleepDaySnapshot ==
    /\ pc = "start"
    /\ result' = build_sleep_day_snapshot(target_day, sleep_docs)
    /\ pc' = "built"
    /\ UNCHANGED <<target_day, sleep_docs, core_sleep, supplemental_episodes,
                   supplemental_seconds, timeline>>
    /\ UNCHANGED outer_vars

Next ==
    \/ SelectCoreSleep
    \/ BuildSupplementalSleepEpisodes
    \/ ComputeSupplementalSleepSeconds
    \/ BuildSleepStageTimeline
    \/ BuildSleepDaySnapshot

Spec == Init /\ [][Next]_vars

\* ------------------------------------------------ stage string inputs
\* The four stage codes and one code the map does not know.
StageCodes == {"1", "2", "3", "4", "x"}

ScenarioAString ==
    <<"1", "1", "1", "1", "2", "2", "2", "2",
      "3", "3", "3", "3", "4", "4", "4", "4">>

StageStrings ==
    UNION { [1..n -> StageCodes] : n \in 0..MaxPhaseLen } \cup {ScenarioAString}

\* bedtime_end lies this many seconds before the end of the last bucket.
EndOffsets == {0, 270, 301}

\* An overnight episode starting 23:00 on day 0 with the given stage string.
TimelineDoc(ph, off) ==
    LET n == IF ph = None THEN 0 ELSE Len(Val(ph))
    IN  Doc(20, 1, "long_sleep", At(0,23,0,0),
            IF n >= 2 THEN At(0,23,0,0) + n * 300 - off
            ELSE At(0,23,0,0) + 300,
            n * 240, n * 60, n * 40, ph)

TimelineInit ==
    /\ target_day = 1
    /\ \E ph \in {None} \cup { Some(str) : str \in StageStrings } :
       \E off \in EndOffsets :
           sleep_docs = <<TimelineDoc(ph, off)>>
    /\ pc = "start"
    /\ core_sleep = NotCalled
    /\ supplemental_episodes = NotCalled
    /\ supplemental_seconds = NotCalled
    /\ timeline = NotCalled
    /\ result = NotCalled
    /\ OuterIdle

TimelineSpec == TimelineInit /\ [][Next]_vars

\* ================================================================
\* SleepDayProvider.get_snapshot and SleepJournalService.run
\* ================================================================
\* Last day a range may name.
MaxDay == 3
Days == 1..MaxDay

\* ------------------------------------------------ what the vendor holds
\* The overnight sleep into day d and a nap on day d, both tagged to d.
NightOf(d) ==
    Doc(10 * d + 1, d, "long_sleep", At(d - 1,22,0,0), At(d,6,0,0),
        28800, 7200, 5400, None)
NapOf(d) ==
    Doc(10 * d + 4, d, "rest", At(d,13,0,0), At(d,13,30,0), 1800, 0, 0, None)

\* A DailySleepScore / DailyReadinessScore document.
ScoreDoc(i, d) == [id |-> i, day |-> d, score |-> 70 + i]
NoScore == <<>>
OneScore(d) == <<ScoreDoc(1, d)>>
TwoScores(d) == <<ScoreDoc(1, d), ScoreDoc(2, d)>>

\* A request to the named stream fails with the named exception.
Fault(stream, error) == Some([stream |-> stream, error |-> error])

VendorDay(sleep, ds, rd, fault) ==
    [sleep |-> sleep, daily_sleep |-> ds, readiness |-> rd, fault |-> fault]

\* What the vendor may answer for target day d: the episodes of
\* [d - 1, d + 1], the score documents of d, and a failing request.
VendorDays(d) ==
    { VendorDay(<<>>, OneScore(d), OneScore(d), None),
      VendorDay(<<NightOf(d)>>, OneScore(d), OneScore(d), None),
      VendorDay(<<NightOf(d), NapOf(d)>>, OneScore(d), OneScore(d), None),
      VendorDay(<<NightOf(d)>>, NoScore, OneScore(d), None),
      VendorDay(<<NightOf(d)>>, TwoScores(d), OneScore(d), None),
      VendorDay(<<NightOf(d)>>, OneScore(d), NoScore, None),
      VendorDay(<<NightOf(d)>>, OneScore(d), TwoScores(d), None),
      \* episodes in the window, none tagged to d
      VendorDay(<<NightOf(d + 1)>>, OneScore(d), OneScore(d), None),
      VendorDay(<<>>, NoScore, NoScore, Fault("sleep", "LoginRequiredError")),
      VendorDay(<<>>, NoScore, NoScore, Fault("sleep", "OuraAuthError")),
      VendorDay(<<>>, NoScore, NoScore, Fault("sleep", "OuraForbiddenError")),
      VendorDay(<<NightOf(d)>>, NoScore, NoScore,
                Fault("daily_sleep", "OuraAuthError")),
      VendorDay(<<NightOf(d)>>, OneScore(d), NoScore,
                Fault("daily_readiness", "OuraServerError")) }

Fails(v, stream) == v.fault # None /\ Val(v.fault).stream = stream

\* ------------------------------------------------ the client's surface
\* The async iterators OuraApiClient defines.
OuraApiClient_iterators ==
    {"iter_daily_sleep_scores", "iter_sleep", "iter_heartrate"}

HasIterator(name) == name \in OuraApiClient_iterators

\* ------------------------------------------------ get_snapshot
Request(stream, window) ==
    [stream |-> stream,
     start_date |-> window.start_date, end_date |-> window.end_date]

\* A provider that asks for the target day only.
sleep_window_day_only(day) == [start_date |-> day, end_date |-> day]

\* start_date=target_day - timedelta(days=1), end_date=target_day + timedelta(days=1)
sleep_window(day) == [start_date |-> day - 1, end_date |-> day + 1]

\* start_date=target_day, end_date=target_day
score_window(day) == [start_date |-> day, end_date |-> day]

\* `async for doc in ...: x = doc` leaves the last document in x.
last_yielded(docs) == IF docs = <<>> THEN None ELSE Some(docs[Len(docs)])

\* What get_snapshot does once the window is known to hold episodes: the
\* calls it makes, the score locals, the assembler's result and its own.
ProviderOutcome(reqs, ds, rd, built, snap) ==
    [requests |-> reqs, daily_sleep |-> ds, readiness |-> rd,
     result |-> built, snapshot |-> snap]

resolve_scores_and_build(day, docs, v) ==
    LET ds_request == Request("daily_sleep", score_window(day))
        rd_request == Request("daily_readiness", score_window(day))
        ds == last_yielded(v.daily_sleep)
        rd == last_yielded(v.readiness)
        built == build_sleep_day_snapshot(day, docs)
    IN  IF Fails(v, "daily_sleep")
        THEN ProviderOutcome(<<ds_request>>, None, None, NotCalled,
                             Raised(Val(v.fault).error))
        ELSE IF ds = None
        THEN ProviderOutcome(<<ds_request>>, None, None, NotCalled,
                             Raised("RuntimeError:Missing DailySleepScore"))
        ELSE IF ~HasIterator("iter_daily_readiness_scores")
        THEN ProviderOutcome(<<ds_request>>, ds, None, NotCalled,
                             Raised("AttributeError:iter_daily_readiness_scores"))
        ELSE IF Fails(v, "daily_readiness")
        THEN ProviderOutcome(<<ds_request, rd_request>>, ds, None, NotCalled,
                             Raised(Val(v.fault).error))
        ELSE IF rd = None
        THEN ProviderOutcome(<<ds_request, rd_request>>, ds, None, NotCalled,
                             Raised("RuntimeError:Missing DailyReadinessScore"))
        ELSE ProviderOutcome(<<ds_request, rd_request>>, ds, rd, built,
                             IF built.raised = "none"
                             THEN Returned(built.value)
                             ELSE Raised(built.raised))

\* ------------------------------------------------ run
\* A handler that takes every failure for a reason to stop quietly.
caught_everything(error) == TRUE

\* except (LoginRequiredError, OuraAuthError)
caught(error) == error \in {"LoginRequiredError", "OuraAuthError"}

\* A loop that leaves out the last day.
loop_continues_exclusive(cur, end) == cur < end

\* while current <= end
loop_continues(cur, end) == cur <= end

\* The fields of SleepDaySnapshot and the attributes _render_snapshot and
\* its helpers read from it.
snapshot_fields ==
    {"day", "night_start", "night_end", "core_sleep_seconds",
     "time_in_bed_seconds", "efficiency_pct", "latency_seconds",
     "rem_seconds", "deep_seconds", "rem_pct", "deep_pct", "avg_hr",
     "min_hr", "avg_hrv", "supplemental_sleep_seconds",
     "total_sleep_24h_seconds", "sleep_score", "readiness_score",
     "timing_score", "timing_label", "timeline", "supplemental_episodes"}
render_reads ==
    {"supplemental_episodes", "timeline", "night_end",
     "temperature_deviation", "temperature_trend_deviation", "day",
     "night_start", "core_sleep_seconds", "supplemental_sleep_seconds",
     "total_sleep_24h_seconds", "sleep_onset", "latency_seconds",
     "efficiency_pct", "time_in_bed_seconds", "rem_seconds", "rem_pct",
     "deep_seconds", "deep_pct", "avg_hr", "min_hr", "avg_hrv",
     "sleep_score", "timing_label", "readiness_score"}

Printed(kind, day) == [kind |-> kind, day |-> day]

\* The position and the result of run after a call of the loop body raised.
pc_after_raise(error) == IF caught(error) THEN "returned" ELSE "raised"
result_after_raise(error) ==
    IF caught(error) THEN Returned(None) ELSE Raised(error)

JournalInit ==
    /\ target_day = 0
    /\ sleep_docs = <<>>
    /\ pc = "off"
    /\ core_sleep = NotCalled
    /\ supplemental_episodes = NotCalled
    /\ supplemental_seconds = NotCalled
    /\ timeline = NotCalled
    /\ result = NotCalled
    /\ vendor = NoVendorDay
    /\ sleep_context \in [start_date : Days, end_date : Days, divider : BOOLEAN]
    /\ current = 0
    /\ journal_pc = "idle"
    /\ stdout = <<>>
    /\ requests = <<>>
    /\ daily_sleep = None
    /\ readiness = None
    /\ snapshot = NotCalled
    /\ run_result = NotCalled
    /\ ClientIdle
    /\ AuthIdle

\* current = sleep_context.start_date; end = sleep_context.end_date
RunStart ==
    /\ journal_pc = "idle"
    /\ current' = sleep_context.start_date
    /\ journal_pc' = "loop"
    /\ UNCHANGED <<builder_vars, vendor, sleep_context, stdout, requests,
                   daily_sleep, readiness, snapshot, run_result>>
    /\ UNCHANGED <<client_vars, auth_vars>>

\* The loop test; when it holds, _render_day(current) calls
\* provider.get_snapshot(current), otherwise run returns.
LoopTest ==
    /\ journal_pc = "loop"
    /\ IF loop_continues(current, sleep_context.end_date)
       THEN /\ target_day' = current
            /\ vendor' \in VendorDays(current)
            /\ sleep_docs' = <<>>
            /\ daily_sleep' = None
            /\ readiness' = None
            /\ result' = NotCalled
            /\ snapshot' = NotCalled
            /\ journal_pc' = "fetch_sleep"
            /\ UNCHANGED run_result
       ELSE /\ journal_pc' = "returned"
            /\ run_result' = Returned(None)
            /\ UNCHANGED <<target_day, vendor, sleep_docs, daily_sleep,
                           readiness, result, snapshot>>
    /\ UNCHANGED <<pc, core_sleep, supplemental_episodes, supplemental_seconds,
                   timeline, sleep_context, current, stdout, requests>>
    /\ UNCHANGED <<client_vars, auth_vars>>

\* get_snapshot up to `if not sleep_docs: return None`
FetchSleepDocs ==
    /\ journal_pc = "fetch_sleep"
    /\ requests' = Append(requests, Request("sleep", sleep_window(target_day)))
    /\ IF Fails(vendor, "sleep")
       THEN /\ snapshot' = Raised(Val(vendor.fault).error)
            /\ journal_pc' = pc_after_raise(Val(vendor.fault).error)
            /\ run_result' = result_after_raise(Val(vendor.fault).error)
            /\ UNCHANGED sleep_docs
       ELSE /\ sleep_docs' = vendor.sleep
            /\ snapshot' = IF vendor.sleep = <<>> THEN Returned(None)
                           ELSE NotCalled
            /\ journal_pc' = IF vendor.sleep = <<>> THEN "render" ELSE "scores"
            /\ UNCHANGED run_result
    /\ UNCHANGED <<target_day, pc, core_sleep, supplemental_episodes,
                   supplemental_seconds, timeline, result, vendor,
                   sleep_context, current, stdout, daily_sleep, readiness>>
    /\ UNCHANGED <<client_vars, auth_vars>>

\* get_snapshot from the sleep score to the assembler's return
ResolveScoresAndBuild ==
    /\ journal_pc = "scores"
    /\ LET out == resolve_scores_and_build(target_day, sleep_docs, vendor)
       IN  /\ requests' = requests \o out.requests
           /\ daily_sleep' = out.daily_sleep
           /\ readiness' = out.readiness
           /\ result' = out.result
           /\ snapshot' = out.snapshot
           /\ journal_pc' = IF out.snapshot.raised = "none" THEN "render"
                            ELSE pc_after_raise(out.snapshot.raised)
           /\ run_result' = IF out.snapshot.raised = "none" THEN run_result
                            ELSE result_after_raise(out.snapshot.raised)
    /\ UNCHANGED <<target_day, sleep_docs, pc, core_sleep,
                   supplemental_episodes, supplemental_seconds, timeline,
                   vendor, sleep_context, current, stdout>>
    /\ UNCHANGED <<client_vars, auth_vars>>

\* _render_day after get_snapshot returned, the divider, current += 1
RenderDay ==
    /\ journal_pc = "render"
    /\ IF Val(snapshot.value) # None /\ ~(render_reads \subseteq snapshot_fields)
       THEN /\ journal_pc' = pc_after_raise("AttributeError:SleepDaySnapshot")
            /\ run_result' = result_after_raise("AttributeError:SleepDaySnapshot")
            /\ UNCHANGED <<stdout, current>>
       ELSE /\ stdout' =
                   Append(stdout,
                          IF Val(snapshot.value) # None
                          THEN Printed("entry", target_day)
                          ELSE Printed("missing", target_day))
                   \o IF sleep_context.divider /\ current < sleep_context.end_date
                      THEN <<Printed("divider", target_day)>>
                      ELSE <<>>
            /\ current' = current + 1
            /\ journal_pc' = "loop"
            /\ UNCHANGED run_result
    /\ UNCHANGED <<builder_vars, vendor, sleep_context, requests, daily_sleep,
                   readiness, snapshot>>
    /\ UNCHANGED <<client_vars, auth_vars>>

JournalNext ==
    \/ RunStart
    \/ LoopTest
    \/ FetchSleepDocs
    \/ ResolveScoresAndBuild
    \/ RenderDay

JournalSpec == JournalInit /\ [][JournalNext]_vars

\* run is one coroutine that the event loop resumes whenever the call it
\* awaits has returned or raised.
JournalLiveSpec == JournalSpec /\ WF_vars(JournalNext)

\* ================================================================ claims
DocSet == { sleep_docs[i] : i \in 1..Len(sleep_docs) }
Tagged == { d \in DocSet : d.day = target_day }
Crossing == { d \in Tagged : DateOf(Val(d.bedtime_start)) = target_day - 1 }
Selected == Val(core_sleep.value)
SelectCalled == core_sleep.raised # "not_called"
BuildCalled == result.raised # "not_called"

\* C1: when the window holds an episode tagged to target_day that starts on
\* target_day - 1, select_core_sleep returns a member of that crossing set
\* whose total_sleep_duration no other member exceeds; a longer same-day
\* episode that does not cross midnight is not returned.
C1_CoreIsLongestCrossing ==
    (SelectCalled /\ Crossing # {}) =>
        /\ core_sleep.raised = "none"
        /\ Selected \in Crossing
        /\ \A d \in Crossing :
               d.total_sleep_duration <= Selected.total_sleep_duration

C1_Witness ==
    /\ pc = "selected"
    /\ Crossing # {}
    /\ Selected \in Crossing
    /\ \E d \in Tagged \ Crossing :
           d.total_sleep_duration > Selected.total_sleep_duration

\* C2: among the candidates of maximal total_sleep_duration the selector
\* returns the one with the earliest bedtime_start and, among those, the
\* lowest id, so the result does not depend on the order of the list.
C2_TieBreakEarliestStartThenLowestId ==
    (SelectCalled /\ core_sleep.raised = "none") =>
        LET candidates == IF Crossing # {} THEN Crossing ELSE Tagged
            ties == { d \in candidates :
                        d.total_sleep_duration = Selected.total_sleep_duration }
        IN  \A d \in ties :
                \/ Val(Selected.bedtime_start) < Val(d.bedtime_start)
                \/ /\ Val(Selected.bedtime_start) = Val(d.bedtime_start)
                   /\ Selected.id <= d.id

\* C3: with no crossing episode but at least one episode tagged to
\* target_day, select_core_sleep returns an episode tagged to target_day of
\* maximal total_sleep_duration among the tagged ones.
C3_FallbackIsLongestTagged ==
    (SelectCalled /\ Crossing = {} /\ Tagged # {}) =>
        /\ core_sleep.raised = "none"
        /\ Selected.day = target_day
        /\ Selected \in DocSet
        /\ \A d \in Tagged :
               d.total_sleep_duration <= Selected.total_sleep_duration

C3_Witness ==
    /\ pc = "selected"
    /\ Crossing = {}
    /\ Cardinality(Tagged) >= 2
    /\ \E d \in DocSet \ Tagged :
           d.total_sleep_duration > Selected.total_sleep_duration
    /\ \E d \in Tagged :
           d.total_sleep_duration < Selected.total_sleep_duration

\* C4: when no episode of the window is tagged to target_day,
\* select_core_sleep raises the selection failure and returns nothing, and
\* build_sleep_day_snapshot ends with that same failure and no snapshot.
C4_NoTaggedEpisodeFails ==
    /\ (SelectCalled /\ Tagged = {}) =>
           core_sleep = Raised("RuntimeError:no_sleep_episodes")
    /\ (BuildCalled /\ Tagged = {}) =>
           result = Raised("RuntimeError:no_sleep_episodes")

C4_Witness ==
    /\ pc = "built"
    /\ sleep_docs # <<>>
    /\ Tagged = {}
    /\ result.raised = "RuntimeError:no_sleep_episodes"
    /\ result.value = None

\* What build_sleep_day_snapshot has to work with once selection succeeded.
SelectionOf == select_core_sleep(sleep_docs, target_day)
CoreOf == Val(SelectionOf.value)
TimelineOf == build_sleep_stage_timeline(CoreOf)
Snapshot == Val(result.value)

\* C5: whenever core selection succeeds and the timeline end check passes,
\* build_sleep_day_snapshot returns a snapshot whose night_start, night_end
\* and core_sleep_seconds are those of the selected episode.
C5_BuildReturnsSnapshotOfCore ==
    (/\ BuildCalled
     /\ SelectionOf.raised = "none"
     /\ ~timeline_invariant_violated(TimelineOf, Val(CoreOf.bedtime_end))) =>
        /\ result.raised = "none"
        /\ Snapshot.night_start = Val(CoreOf.bedtime_start)
        /\ Snapshot.night_end = Val(CoreOf.bedtime_end)
        /\ Snapshot.core_sleep_seconds = CoreOf.total_sleep_duration

\* The rule of the supplemental selector for one episode.
Qualifies(d, core, previous_window_end) ==
    /\ d.id # core.id
    /\ d.total_sleep_duration > 0
    /\ d.bedtime_start # None /\ d.bedtime_end # None
    /\ Val(d.bedtime_end) <= Val(core.bedtime_start)
    /\ \/ previous_window_end = None
       \/ Val(d.bedtime_start) >= Val(previous_window_end)

EpisodesBuilt == pc \in {"episodes", "seconds", "timeline"}
Episodes == Val(supplemental_episodes.value)

\* C6: build_supplemental_sleep_episodes puts an episode in its output if and
\* only if it is not the core, has total_sleep_duration > 0, has both
\* timestamps, ends no later than the core starts, and starts no earlier
\* than previous_window_end when there is one.
C6_IncludedIffQualifies ==
    EpisodesBuilt =>
        LET pwe == previous_core_sleep_end(Selected, sleep_docs)
        IN  /\ \A d \in DocSet :
                   Qualifies(d, Selected, pwe) <=>
                       \E k \in 1..Len(Episodes) :
                           Episodes[k] = SupplementalSleepEpisode(d)
            /\ Len(Episodes) =
                   Cardinality({ d \in DocSet : Qualifies(d, Selected, pwe) })

RECURSIVE SumEpisodeSeconds(_)
SumEpisodeSeconds(s) ==
    IF s = <<>> THEN 0
    ELSE Head(s).duration_seconds + SumEpisodeSeconds(Tail(s))

\* C7: the supplemental seconds computed for the snapshot equal the sum of
\* duration_seconds over the supplemental episode list computed for it.
C7_SecondsAreSumOfEpisodes ==
    pc \in {"seconds", "timeline"} =>
        Val(supplemental_seconds.value) = SumEpisodeSeconds(Episodes)

\* C8: adding one episode that leaves the selected core unchanged raises the
\* supplemental total by exactly its duration when it qualifies as
\* supplemental and leaves the total unchanged when it does not.
C8_TotalMonotonicInQualifying ==
    pc = "seconds" =>
        \A e \in { x \in Pool : \A d \in DocSet : d.id # x.id } :
            LET extended == Append(sleep_docs, e)
            IN  select_core_sleep(extended, target_day) = core_sleep =>
                    compute_supplemental_sleep_seconds(
                        extended, Selected.id, target_day)
                    = Val(supplemental_seconds.value)
                      + (IF Qualifies(e, Selected,
                                      previous_core_sleep_end(Selected, extended))
                         THEN e.total_sleep_duration ELSE 0)

\* C9 (scenario B): with the overnight episode 22:00 -> 06:00 (28800 s) and
\* the nap 13:00 -> 13:30 (1800 s), both tagged to the target day, the build
\* takes the overnight episode as core, lists the nap as the one
\* supplemental episode and reports 30600 s for the 24 hours.
C9_ScenarioB ==
    (BuildCalled /\ target_day = 1 /\ DocSet = {OvernightDoc, NapDoc}) =>
        /\ result.raised = "none"
        /\ Snapshot.night_start = At(0,22,0,0)
        /\ Snapshot.night_end = At(1,6,0,0)
        /\ Snapshot.core_sleep_seconds = 28800
        /\ Snapshot.supplemental_episodes =
               <<[start |-> At(1,13,0,0), end |-> At(1,13,30,0),
                  duration_seconds |-> 1800]>>
        /\ Snapshot.total_sleep_24h_seconds = 30600

\* C10: for a core episode with a non-empty timeline, with delta the end of
\* the last segment minus bedtime_end: when 0 <= delta < 300 the build
\* returns the snapshot with the timeline and night_end untouched, otherwise
\* it raises the timeline inconsistency.
C10_TimelineEndCheck ==
    (/\ BuildCalled
     /\ SelectionOf.raised = "none"
     /\ TimelineOf # None
     /\ Val(TimelineOf).segments # <<>>) =>
        LET segments == Val(TimelineOf).segments
            delta == segments[Len(segments)].end - Val(CoreOf.bedtime_end)
        IN  IF 0 <= delta /\ delta < 300
            THEN /\ result.raised = "none"
                 /\ Snapshot.timeline = TimelineOf
                 /\ Snapshot.night_end = Val(CoreOf.bedtime_end)
            ELSE result = Raised("RuntimeError:timeline_invariant")

\* ------------------------------------------------ timeline claims
HasTimeline == pc = "timeline" /\ Val(timeline.value) # None
Phase == Val(Selected.sleep_phase_5_min)
Anchor == Val(Selected.bedtime_start)
Segments == Val(Val(timeline.value)).segments
Recognized(ch) == ch \in {"1", "2", "3", "4"}
AllRecognized == \A i \in 1..Len(Phase) : Recognized(Phase[i])
StageOfCode(ch) ==
    CASE ch = "1" -> "deep" [] ch = "2" -> "light"
      [] ch = "3" -> "rem" [] ch = "4" -> "awake"
\* The 5-minute bucket of the character at 1-based position i.
BucketStart(i) == Anchor + 300 * (i - 1)
BucketEnd(i) == Anchor + 300 * i
Holding(i) ==
    { k \in 1..Len(Segments) :
        Segments[k].start <= BucketStart(i) /\ BucketEnd(i) <= Segments[k].end }
Touching(i) ==
    { k \in 1..Len(Segments) :
        Segments[k].start < BucketEnd(i) /\ BucketStart(i) < Segments[k].end }
\* The positions of recognized characters before position i.
RecognizedBefore(i) == { j \in 1..(i - 1) : Recognized(Phase[j]) }
LastRecognizedBefore(i) ==
    CHOOSE j \in RecognizedBefore(i) : \A m \in RecognizedBefore(i) : m <= j

RECURSIVE SumSegmentSeconds(_)
SumSegmentSeconds(segs) ==
    IF segs = <<>> THEN 0
    ELSE (Head(segs).end - Head(segs).start) + SumSegmentSeconds(Tail(segs))

\* C11: for a stage string of recognized codes only, the segment durations
\* add up to len x 300 s, the first segment starts at bedtime_start and the
\* last one ends at bedtime_start + len x 300 s.
C11_RecognizedStringIsCovered ==
    (HasTimeline /\ AllRecognized) =>
        /\ Segments # <<>>
        /\ SumSegmentSeconds(Segments) = Len(Phase) * 300
        /\ Segments[1].start = Anchor
        /\ Segments[Len(Segments)].end = Anchor + Len(Phase) * 300

C11_Witness ==
    /\ HasTimeline /\ AllRecognized
    /\ Len(Phase) = MaxPhaseLen
    /\ Len(Segments) >= 3

\* C12: for every stage string the segments are ordered, non-overlapping and
\* contiguous: each has start < end, each starts where its predecessor ends,
\* and resolution_seconds is 300.
C12_SegmentsContiguous ==
    HasTimeline =>
        /\ Val(Val(timeline.value)).resolution_seconds = 300
        /\ \A k \in 1..Len(Segments) : Segments[k].start < Segments[k].end
        /\ \A k \in 2..Len(Segments) : Segments[k].start = Segments[k - 1].end

C12_Witness ==
    /\ HasTimeline
    /\ Len(Segments) >= 2
    /\ \E i \in 2..(Len(Phase) - 1) :
           /\ ~Recognized(Phase[i])
           /\ Recognized(Phase[i - 1]) /\ Recognized(Phase[i + 1])
           /\ Phase[i - 1] # Phase[i + 1]

\* C13: '1' is deep, '2' light, '3' rem and '4' awake, and the bucket of every
\* recognized character lies inside exactly one segment, whose stage is the
\* stage of that character; "1111222233334444" anchored at 23:00 decodes to
\* deep 23:00-23:20, light 23:20-23:40, rem 23:40-00:00, awake 00:00-00:20.
C13_BucketsCarryMappedStage ==
    HasTimeline =>
        /\ \A i \in 1..Len(Phase) :
               Recognized(Phase[i]) =>
                   /\ Cardinality(Holding(i)) = 1
                   /\ \A k \in Holding(i) :
                          Segments[k].stage = StageOfCode(Phase[i])
        /\ (Phase = ScenarioAString /\ Anchor = At(0,23,0,0)) =>
               Segments =
                   <<[start |-> At(0,23,0,0), end |-> At(0,23,20,0), stage |-> "deep"],
                     [start |-> At(0,23,20,0), end |-> At(0,23,40,0), stage |-> "light"],
                     [start |-> At(0,23,40,0), end |-> At(1,0,0,0), stage |-> "rem"],
                     [start |-> At(1,0,0,0), end |-> At(1,0,20,0), stage |-> "awake"]>>

C13_Witness ==
    HasTimeline /\ Phase = ScenarioAString /\ Len(Segments) = 4

\* C14 as claimed: the bucket of an unrecognized character is covered by no
\* segment, wherever the character stands.
C14_UnknownBucketUncovered ==
    HasTimeline =>
        \A i \in 1..Len(Phase) : ~Recognized(Phase[i]) => Touching(i) = {}

\* C14 as amended: an unrecognized character opens no segment and changes
\* no stage; its bucket is covered by no segment when no recognized
\* character precedes it, and otherwise lies inside the one segment of the
\* last recognized character before it.
C14_UnknownOpensNothing ==
    HasTimeline =>
        \A i \in 1..Len(Phase) :
            ~Recognized(Phase[i]) =>
                /\ \A k \in 1..Len(Segments) : Segments[k].start # BucketStart(i)
                /\ IF RecognizedBefore(i) = {}
                   THEN Touching(i) = {}
                   ELSE /\ Cardinality(Holding(i)) = 1
                        /\ Touching(i) = Holding(i)
                        /\ \A k \in Holding(i) :
                               Segments[k].stage =
                                   StageOfCode(Phase[LastRecognizedBefore(i)])

C14_Witness ==
    /\ HasTimeline
    /\ Len(Phase) >= 4
    /\ ~Recognized(Phase[1])
    /\ Recognized(Phase[2])
    /\ ~Recognized(Phase[3])
    /\ ~Recognized(Phase[Len(Phase)])
    /\ Len(Segments) = 1

\* A recognized character at position i opens a segment when it is the
\* first recognized one or the recognized one before it has another stage.
Opens(i) ==
    /\ Recognized(Phase[i])
    /\ \/ RecognizedBefore(i) = {}
       \/ Phase[LastRecognizedBefore(i)] # Phase[i]

\* C15: the segment opened by the recognized character at 0-based index i
\* starts at anchor + i x 300 s, however many unrecognized characters
\* precede it; and segments start nowhere else.
C15_SegmentStartsAtIndexTime ==
    HasTimeline =>
        /\ \A i \in 1..Len(Phase) :
               Opens(i) =>
                   \E k \in 1..Len(Segments) :
                       /\ Segments[k].start = Anchor + (i - 1) * 300
                       /\ Segments[k].stage = StageOfCode(Phase[i])
        /\ \A k \in 1..Len(Segments) :
               \E i \in 1..Len(Phase) :
                   Opens(i) /\ Segments[k].start = Anchor + (i - 1) * 300
        /\ Len(Segments) = Cardinality({ i \in 1..Len(Phase) : Opens(i) })

C15_Witness ==
    /\ HasTimeline
    /\ Len(Phase) >= 4
    /\ ~Recognized(Phase[1]) /\ Recognized(Phase[2])
    /\ ~Recognized(Phase[3]) /\ Recognized(Phase[4])
    /\ Len(Segments) = 2
    /\ Segments[2].start = Anchor + 900

\* C16: no two consecutive segments have the same stage, and for a string
\* of recognized codes there are as many segments as maximal runs of equal
\* characters.
C16_MergesExactlyRuns ==
    HasTimeline =>
        /\ \A k \in 2..Len(Segments) : Segments[k].stage # Segments[k - 1].stage
        /\ AllRecognized =>
               Len(Segments) =
                   1 + Cardinality({ i \in 2..Len(Phase) : Phase[i] # Phase[i - 1] })

C16_Witness ==
    /\ HasTimeline /\ AllRecognized
    /\ Len(Phase) = 4
    /\ Phase[1] = Phase[2] /\ Phase[2] # Phase[3] /\ Phase[3] # Phase[4]
    /\ Len(Segments) = 3

\* C17: with an absent or empty stage string build_sleep_stage_timeline
\* returns no timeline and raises nothing, and build_sleep_day_snapshot
\* returns a snapshot whose timeline is null.
C17_AbsentStageString ==
    LET absent(d) == d.sleep_phase_5_min = None \/ d.sleep_phase_5_min = Some(<<>>)
    IN  /\ (pc = "timeline" /\ absent(Selected)) => timeline = Returned(None)
        /\ (BuildCalled /\ SelectionOf.raised = "none" /\ absent(CoreOf)) =>
               /\ result.raised = "none"
               /\ Snapshot.timeline = None

\* The long sleeps other than the core that end strictly before it starts.
EarlierLongSleeps ==
    { d \in DocSet :
        /\ d.id # Selected.id
        /\ d.type = "long_sleep"
        /\ Val(d.bedtime_end) < Val(Selected.bedtime_start) }

\* C18: previous_window_end is the latest bedtime_end among the long sleeps
\* other than the core that end strictly before core.bedtime_start, and is
\* null when there is none; a long sleep ending at core.bedtime_start or
\* later and an episode of another type never contribute.
C18_PreviousWindowEnd ==
    EpisodesBuilt =>
        LET pwe == previous_core_sleep_end(Selected, sleep_docs)
        IN  IF EarlierLongSleeps = {}
            THEN pwe = None
            ELSE /\ pwe # None
                 /\ \E d \in EarlierLongSleeps : Val(d.bedtime_end) = Val(pwe)
                 /\ \A d \in EarlierLongSleeps : Val(d.bedtime_end) <= Val(pwe)

C18_Witness ==
    /\ EpisodesBuilt
    /\ Cardinality(EarlierLongSleeps) >= 1
    /\ previous_core_sleep_end(Selected, sleep_docs) # None
    /\ \E d \in DocSet :
           /\ d.type = "long_sleep" /\ d.id # Selected.id
           /\ Val(d.bedtime_end) = Val(Selected.bedtime_start)

C18_WitnessNull ==
    /\ EpisodesBuilt
    /\ previous_core_sleep_end(Selected, sleep_docs) = None
    /\ \E d \in DocSet :
           /\ d.type # "long_sleep"
           /\ Val(d.bedtime_end) < Val(Selected.bedtime_start)

\* How often a record stands in a list, and how many non-core documents of
\* the window reduce to it.
TimesListed(r) == Cardinality({ k \in 1..Len(Episodes) : Episodes[k] = r })
SourcesOf(r) ==
    Cardinality({ d \in DocSet :
                    d.id # Selected.id /\ SupplementalSleepEpisode(d) = r })

\* C19 as claimed: no listed episode overlaps the core window, each
\* episode starts strictly later than its predecessor, and no source
\* episode is listed twice.
C19_StrictlyOrdered ==
    EpisodesBuilt =>
        /\ \A k \in 1..Len(Episodes) :
               Episodes[k].end <= Val(Selected.bedtime_start)
        /\ \A k \in 2..Len(Episodes) : Episodes[k - 1].start < Episodes[k].start
        /\ \A k \in 1..Len(Episodes) :
               TimesListed(Episodes[k]) <= SourcesOf(Episodes[k])

\* C19 as amended: no listed episode overlaps the core window, each
\* episode starts no earlier than its predecessor, and no source episode is
\* listed twice.
C19_OrderedByStart ==
    EpisodesBuilt =>
        /\ \A k \in 1..Len(Episodes) :
               Episodes[k].end <= Val(Selected.bedtime_start)
        /\ \A k \in 2..Len(Episodes) : Episodes[k - 1].start <= Episodes[k].start
        /\ \A k \in 1..Len(Episodes) :
               TimesListed(Episodes[k]) <= SourcesOf(Episodes[k])

C19_Witness ==
    /\ EpisodesBuilt
    /\ Len(Episodes) >= 2
    /\ Len(sleep_docs) >= 3
    /\ Val(sleep_docs[1].bedtime_start) > Val(sleep_docs[2].bedtime_start)
    /\ Episodes[1] = SupplementalSleepEpisode(sleep_docs[2])
    /\ Episodes[2] = SupplementalSleepEpisode(sleep_docs[1])

NearestHalfToEven(p, n, d) ==
    LET twice == 2 * (n - p * d)
        dist == IF twice < 0 THEN 0 - twice ELSE twice
    IN  /\ dist <= d
        /\ dist = d => p % 2 = 0

BuildPassesChecks ==
    /\ BuildCalled
    /\ SelectionOf.raised = "none"
    /\ ~timeline_invariant_violated(TimelineOf, Val(CoreOf.bedtime_end))

NegativeInput == \E d \in DocSet : d.total_sleep_duration < 0

\* C22: no supplemental episode list and no snapshot carries a negative
\* duration, and the build of a window that holds an episode with a
\* negative duration field fails.
C22_NoNegativeDuration ==
    /\ EpisodesBuilt =>
           \A k \in 1..Len(Episodes) : Episodes[k].duration_seconds >= 0
    /\ (BuildCalled /\ result.raised = "none") =>
           /\ Snapshot.core_sleep_seconds >= 0
           /\ Snapshot.rem_seconds >= 0
           /\ Snapshot.deep_seconds >= 0
           /\ Snapshot.time_in_bed_seconds >= 0
           /\ Snapshot.supplemental_sleep_seconds >= 0
           /\ Snapshot.total_sleep_24h_seconds >= 0
           /\ \A k \in 1..Len(Snapshot.supplemental_episodes) :
                  Snapshot.supplemental_episodes[k].duration_seconds >= 0
    /\ (BuildCalled /\ NegativeInput) => result.raised # "none"

\* A non-empty stage string without a single recognized code.
OnlyUnrecognized(d) ==
    /\ d.sleep_phase_5_min # None
    /\ Val(d.sleep_phase_5_min) # <<>>
    /\ \A i \in 1..Len(Val(d.sleep_phase_5_min)) :
           ~Recognized(Val(d.sleep_phase_5_min)[i])

\* C28: a non-empty stage string of unrecognized codes only gives a timeline
\* object with no segments (not the absent value), and the build of such a
\* core skips the end check and returns a snapshot with that timeline,
\* whatever the distance between bedtime_start + len x 300 s and bedtime_end.
C28_UnrecognizedOnlyString ==
    /\ (pc = "timeline" /\ OnlyUnrecognized(Selected)) =>
           /\ timeline.raised = "none"
           /\ Val(timeline.value) # None
           /\ Segments = <<>>
    /\ (BuildCalled /\ SelectionOf.raised = "none" /\ OnlyUnrecognized(CoreOf)) =>
           /\ result.raised = "none"
           /\ Snapshot.timeline # None
           /\ Val(Snapshot.timeline).segments = <<>>

\* ------------------------------------------------ provider and journal claims
\* The calls of the get_snapshot call made last, which is the call for
\* target_day, and what the vendor held for it.
SleepRequestIndexes ==
    { k \in 1..Len(requests) : requests[k].stream = "sleep" }
LastSleepRequest ==
    CHOOSE k \in SleepRequestIndexes : \A j \in SleepRequestIndexes : j <= k
ThisCall == SubSeq(requests, LastSleepRequest, Len(requests))
AfterFetch ==
    /\ requests # <<>>
    /\ journal_pc \in {"scores", "render", "loop", "returned", "raised"}
CallEnded == AfterFetch /\ journal_pc # "scores"
WindowEmpty == ~Fails(vendor, "sleep") /\ vendor.sleep = <<>>
WindowHoldsEpisodes == ~Fails(vendor, "sleep") /\ vendor.sleep # <<>>

\* C23: get_snapshot(target_day) asks for the episodes of
\* [target_day - 1, target_day + 1] first and for score documents of
\* [target_day, target_day] only; when the episode stream yields nothing it
\* returns None without raising, having asked for no score document and
\* not having called the assembler; and it returns None on no other path.
C23_EmptyWindowIsNoData ==
    AfterFetch =>
        /\ ThisCall[1] =
               [stream |-> "sleep", start_date |-> target_day - 1,
                end_date |-> target_day + 1]
        /\ \A k \in 2..Len(ThisCall) :
               /\ ThisCall[k].stream \in {"daily_sleep", "daily_readiness"}
               /\ ThisCall[k].start_date = target_day
               /\ ThisCall[k].end_date = target_day
        /\ WindowEmpty =>
               /\ snapshot = Returned(None)
               /\ Len(ThisCall) = 1
               /\ result = NotCalled
        /\ snapshot = Returned(None) => WindowEmpty

C23_Witness ==
    /\ journal_pc = "render"
    /\ target_day = 2
    /\ WindowEmpty
    /\ snapshot = Returned(None)
    /\ requests =
           <<[stream |-> "sleep", start_date |-> 0, end_date |-> 2],
             [stream |-> "sleep", start_date |-> 1, end_date |-> 3]>>

\* C24: for a window that holds episodes, when the sleep-score stream or
\* the readiness-score stream yields no document or more than one for
\* target_day, get_snapshot ends with the missing-score failure; a score
\* local is never taken from a stream that yielded several documents.
C24_ScoreCardinality ==
    (CallEnded /\ WindowHoldsEpisodes /\ vendor.fault = None) =>
        /\ Len(vendor.daily_sleep) # 1 =>
               snapshot = Raised("RuntimeError:Missing DailySleepScore")
        /\ (Len(vendor.daily_sleep) = 1 /\ Len(vendor.readiness) # 1) =>
               snapshot = Raised("RuntimeError:Missing DailyReadinessScore")
        /\ daily_sleep # None => Len(vendor.daily_sleep) = 1
        /\ readiness # None => Len(vendor.readiness) = 1

\* The days whose episodes were asked for and the days rendered (as an
\* entry or as the placeholder), in the order in which that happened.
SleepRequests == SelectSeq(requests, LAMBDA r : r.stream = "sleep")
FetchedDays ==
    [k \in 1..Len(SleepRequests) |-> SleepRequests[k].start_date + 1]
Entries == SelectSeq(stdout, LAMBDA e : e.kind # "divider")
RenderedDays == [k \in 1..Len(Entries) |-> Entries[k].day]
ConsecutiveFrom(days, first) ==
    \A k \in 1..Len(days) : days[k] = first + k - 1
RunEnded == journal_pc \in {"returned", "raised"}
DayRaised == snapshot.raised \notin {"none", "not_called"}

C25_Order ==
    /\ ConsecutiveFrom(FetchedDays, sleep_context.start_date)
    /\ ConsecutiveFrom(RenderedDays, sleep_context.start_date)
    /\ \A k \in 1..Len(FetchedDays) : FetchedDays[k] <= sleep_context.end_date
    /\ Len(RenderedDays) <= Len(FetchedDays)
    /\ Len(FetchedDays) <= Len(RenderedDays) + 1
    /\ journal_pc = "fetch_sleep" =>
           /\ Len(RenderedDays) = Len(FetchedDays)
           /\ target_day = sleep_context.start_date + Len(FetchedDays)
    /\ (journal_pc = "returned" /\ ~DayRaised) =>
           Len(RenderedDays) =
               IF sleep_context.start_date <= sleep_context.end_date
               THEN sleep_context.end_date - sleep_context.start_date + 1
               ELSE 0

\* C25: over a range [start_date, end_date] the days are fetched and
\* rendered in ascending order without gap or repetition, the fetch for a
\* day begins only when every earlier day has been rendered, no day after
\* end_date is fetched, a run that no day stops renders every day of the
\* range, and the run ends.
C25_DaysInOrderThenEnd == []C25_Order /\ <>RunEnded

C25_Witness ==
    /\ journal_pc = "returned"
    /\ sleep_context = [start_date |-> 1, end_date |-> 3, divider |-> TRUE]
    /\ requests =
           <<[stream |-> "sleep", start_date |-> 0, end_date |-> 2],
             [stream |-> "sleep", start_date |-> 1, end_date |-> 3],
             [stream |-> "sleep", start_date |-> 2, end_date |-> 4]>>
    /\ RenderedDays = <<1, 2, 3>>
    /\ Len(stdout) = 5

\* C27: when get_snapshot raises LoginRequiredError or OuraAuthError for a
\* day, run returns normally; when it raises anything else, run ends with
\* that failure; in both cases no later day is fetched and exactly the
\* days before it have been rendered; a day without data is rendered as
\* the placeholder and the loop goes on to the next day.
C27_FailurePolicy ==
    /\ DayRaised =>
           /\ IF snapshot.raised \in {"LoginRequiredError", "OuraAuthError"}
              THEN journal_pc = "returned" /\ run_result = Returned(None)
              ELSE journal_pc = "raised" /\ run_result = Raised(snapshot.raised)
           /\ Len(FetchedDays) = target_day - sleep_context.start_date + 1
           /\ FetchedDays[Len(FetchedDays)] = target_day
           /\ Len(RenderedDays) = target_day - sleep_context.start_date
           /\ ConsecutiveFrom(RenderedDays, sleep_context.start_date)
    /\ (journal_pc = "loop" /\ snapshot = Returned(None)) =>
           /\ Entries[Len(Entries)] = Printed("missing", target_day)
           /\ current = target_day + 1

C27_Witness ==
    /\ journal_pc = "returned"
    /\ snapshot = Raised("OuraAuthError")
    /\ target_day = 2
    /\ sleep_context.end_date = 3
    /\ stdout = <<Printed("missing", 1)>>


\* ---------------------------------------------------------------------
\* OuraApiClient: cursor-based pagination of iter_sleep and
\* iter_daily_sleep_scores (clients/oura_api_client.py).
\* ---------------------------------------------------------------------

\* Most items one page carries.
MaxPageItems == 2

\* Most page requests one iteration is followed for.
MaxRequests == 4

\* The cursors the server hands out.
Tokens == {"t1", "t2"}

\* What a request can carry as next_token: nothing, or one of the cursors.
Cursors == {None} \cup {Some(t) : t \in Tokens}

\* What a page can carry as next_token: nothing (null or missing key), the
\* empty string, or a cursor.
PageTokens == {None, Some("")} \cup {Some(t) : t \in Tokens}

\* The items of the page served for a cursor: distinct on every page.
ItemsOf(c, n) ==
    LET base == IF c = None THEN 0 ELSE IF c = Some("t1") THEN 10 ELSE 20
    IN  [k \in 1..n |-> base + k]

\* Page(data, next_token, raw) as the parsers build it, or the error the
\* transport raises for the response.
Page(data, next_token) == [error |-> None, data |-> data, next_token |-> next_token]

ErrorResponse(error) == [error |-> Some(error), data |-> <<>>, next_token |-> None]

\* What the server can answer to the request carrying cursor c.
Responses(c) ==
    {Page(ItemsOf(c, n), t) : n \in 0..MaxPageItems, t \in PageTokens}
        \cup {ErrorResponse("OuraServerError")}

\* The two iterators and the path each one requests.
Iterators == {"iter_sleep", "iter_daily_sleep_scores"}

path(iterator) ==
    IF iterator = "iter_sleep" THEN "/v2/usercollection/sleep"
    ELSE "/v2/usercollection/daily_sleep"

\* Python truth of a str | None.
truthy(t) == t # None /\ Val(t) # ""

\* `if next_token: params["next_token"] = next_token`: the parameter is sent
\* only for a non-empty cursor.
next_token_param(t) == IF truthy(t) THEN t ELSE None

\* `if not page.next_token: break`, read as "the loop goes on".
has_next_unless_none(page) == page.next_token # None

has_next(page) == truthy(page.next_token)

\* The page the iterator is walking.
page_at_hand == pages[Len(pages)]

ClientInit ==
    /\ pc = "off"
    /\ target_day = 0
    /\ sleep_docs = <<>>
    /\ core_sleep = None
    /\ supplemental_episodes = <<>>
    /\ supplemental_seconds = 0
    /\ timeline = None
    /\ result = NotCalled
    /\ JournalIdle
    /\ AuthIdle
    /\ server \in {f \in [Cursors -> UNION {Responses(c) : c \in Cursors}] :
                      \A c \in Cursors : f[c] \in Responses(c)}
    /\ iterating \in Iterators
    /\ token = None
    /\ cursor = 0
    /\ pages = <<>>
    /\ sent = <<>>
    /\ yielded = <<>>
    /\ client_pc = "request"

\* get_sleep_page / get_daily_sleep_score_page: one request, one parsed page,
\* or the error of the response raised out of the iterator.
RequestPage ==
    /\ client_pc = "request"
    /\ Len(sent) < MaxRequests
    /\ LET param == next_token_param(token)
           response == server[param]
       IN  /\ sent' = Append(sent, [path |-> path(iterating), next_token |-> param])
           /\ IF response.error # None
              THEN /\ client_pc' = "raised"
                   /\ UNCHANGED <<pages, cursor>>
              ELSE /\ pages' = Append(pages, response)
                   /\ cursor' = 0
                   /\ client_pc' = "page"
    /\ UNCHANGED <<server, iterating, token, yielded>>
    /\ UNCHANGED <<builder_vars, journal_vars, auth_vars>>

\* `for item in page.data: yield item`: one item handed to the consumer.
YieldItem ==
    /\ client_pc = "page"
    /\ cursor < Len(page_at_hand.data)
    /\ yielded' = Append(yielded, page_at_hand.data[cursor + 1])
    /\ cursor' = cursor + 1
    /\ UNCHANGED <<server, iterating, token, pages, sent, client_pc>>
    /\ UNCHANGED <<builder_vars, journal_vars, auth_vars>>

\* The page is used up: break, or keep its cursor for the next request.
EndOfPage ==
    /\ client_pc = "page"
    /\ cursor = Len(page_at_hand.data)
    /\ IF has_next(page_at_hand)
       THEN /\ token' = page_at_hand.next_token
            /\ client_pc' = "request"
       ELSE /\ client_pc' = "done"
            /\ UNCHANGED token
    /\ UNCHANGED <<server, iterating, cursor, pages, sent, yielded>>
    /\ UNCHANGED <<builder_vars, journal_vars, auth_vars>>

ClientNext == RequestPage \/ YieldItem \/ EndOfPage

ClientSpec == ClientInit /\ [][ClientNext]_vars

\* The consumer is an `async for` that takes every item and the event loop
\* runs every awaited request, so a step that can be taken is taken.
ClientLiveSpec == ClientSpec /\ WF_vars(ClientNext)


\* The items of pages ps[1..n], page after page, each page in its own order.
RECURSIVE Flatten(_, _)
Flatten(ps, n) == IF n = 0 THEN <<>> ELSE Flatten(ps, n - 1) \o ps[n].data

\* What the consumer must have received so far: every earlier page whole
\* and the page at hand up to the position reached.
Delivered ==
    IF client_pc = "page"
    THEN Flatten(pages, Len(pages) - 1) \o SubSeq(page_at_hand.data, 1, cursor)
    ELSE Flatten(pages, Len(pages))

\* Following the cursors from the first request, the server reaches, within
\* n successful pages, one whose next_token is absent or empty.
RECURSIVE Ends(_, _)
Ends(c, n) ==
    /\ n > 0
    /\ server[c].error = None
    /\ \/ ~truthy(server[c].next_token)
       \/ Ends(server[c].next_token, n - 1)

ServerEnds == Ends(None, MaxRequests)

IterationDone == client_pc = "done"

C29_Safe ==
    /\ yielded = Delivered
    /\ \A k \in 1..Len(sent) : sent[k].path = path(iterating)
    /\ Len(sent) > 0 => sent[1].next_token = None
    /\ \A k \in 1..(Len(sent) - 1) :
          /\ k <= Len(pages)
          /\ sent[k + 1].next_token = pages[k].next_token
    /\ \A k \in 1..(Len(pages) - 1) : truthy(pages[k].next_token)
    /\ Len(pages) <= Len(sent)
    /\ IterationDone =>
          /\ Len(pages) = Len(sent)
          /\ ~truthy(page_at_hand.next_token)
          /\ ServerEnds

\* C29: the iterators yield every item of every fetched page exactly once,
\* page after page and in page order; the first request carries no
\* next_token and request k+1 carries the next_token of page k; no page
\* but the last fetched one has an absent or empty next_token, and the
\* iteration completes exactly when the server's chain of pages reaches
\* such a page.
C29_CursorPagination == []C29_Safe /\ (ServerEnds ~> IterationDone)

\* Three pages were fetched, the last one ended the iteration with an empty
\* next_token, and four items came out of them.
C29_Witness ==
    /\ IterationDone
    /\ Len(pages) = 3
    /\ page_at_hand.next_token = Some("")
    /\ Len(yielded) = 4
    /\ iterating = "iter_daily_sleep_scores"


\* ---------------------------------------------------------------------
\* OuraAuth.get_access_token (oura/auth/oura_auth.py) with the token file
\* (storage/file_storage.py), TokenSet (domain/token.py) and the token
\* endpoint (oauth_http.py).
\* ---------------------------------------------------------------------

\* Most refresh requests followed.
MaxRefreshes == 2

\* Most seconds the clock is advanced.
MaxTicks == 2

\* time.time() when the first token is asked for.
Now0 == 10000

\* requires_refresh(skew_seconds=300).
skew_seconds == 300

\* self._scopes, the scopes the application is configured with.
RequiredScopes == {"daily", "heartrate"}

\* The scope strings a token can carry, as lists of words.
ScopeStrings ==
    {<<"daily", "heartrate">>, <<"heartrate", "personal", "daily">>,
     <<"daily">>, <<"personal">>}

TokenSet(access_token, refresh_token, expires_at, scope, obtained_at) ==
    [access_token |-> access_token, refresh_token |-> refresh_token,
     expires_at |-> expires_at, scope |-> scope, obtained_at |-> obtained_at]

\* TokenSet.__post_init__: 0 stands for an empty token string.
valid_token(t) ==
    /\ t.access_token # 0
    /\ t.refresh_token # 0
    /\ t.expires_at > 0
    /\ t.scope # <<>>
    /\ t.expires_at > t.obtained_at

\* TokenSet.scope_set: set(self.scope.split()).
scope_set(t) == {t.scope[k] : k \in 1..Len(t.scope)}

has_scopes(t, required) == required \subseteq scope_set(t)

expires_in(t, clock) == t.expires_at - clock

\* TokenSet.requires_refresh.
requires_refresh(t, clock) == expires_in(t, clock) <= skew_seconds

\* Seconds to expiry of the token stored at the start.
StoredLifetimes == {-1, 0, 299, 300, 301, 302}

\* A token file whose content does not make a TokenSet.
CorruptFile == Some(TokenSet(0, 0, 0, <<>>, 0))

\* The token file at the start: missing, corrupt, or a token of generation 1.
TokenFiles ==
    {None, CorruptFile}
        \cup {Some(TokenSet(1, 1, Now0 + d, sc, Now0 + d - 3600)) :
                d \in StoredLifetimes, sc \in ScopeStrings}

\* FileTokenStorage.load: None without a file, AuthStorageError for a file
\* that does not parse into a valid TokenSet.
load(file) ==
    IF file = None THEN Returned(None)
    ELSE IF ~valid_token(Val(file)) THEN Raised("AuthStorageError")
    ELSE Returned(file)

\* What the token endpoint can do with a refresh request: answer with a
\* token payload (expires_in 0 makes an invalid TokenSet), answer with an
\* OAuth error, or not be reached.
EndpointAnswers ==
    {[kind |-> "payload", expires_in |-> e] : e \in {0, 301, 3600}}
        \cup {[kind |-> "oauth_error", expires_in |-> 0],
              [kind |-> "network_error", expires_in |-> 0]}

\* oauth_http.refresh_access_token for the n-th token issued.
refresh_access_token(t, answer, clock, n) ==
    IF answer.kind = "network_error" THEN Raised("AuthNetworkError")
    ELSE IF answer.kind = "oauth_error" THEN Raised("OAuthTokenRefreshError")
    ELSE LET new == TokenSet(n, n, clock + answer.expires_in, t.scope, clock)
         IN  IF valid_token(new) THEN Returned(new)
             ELSE Raised("OAuthTokenRefreshError")

\* OuraAuth._refresh_token: the except clause, and one that catches every
\* AuthError.
translate_any(error) == "LoginRequiredError"

translate(error) ==
    IF error = "OAuthTokenRefreshError" THEN "LoginRequiredError" ELSE error

AuthInit ==
    /\ pc = "off"
    /\ target_day = 0
    /\ sleep_docs = <<>>
    /\ core_sleep = None
    /\ supplemental_episodes = <<>>
    /\ supplemental_seconds = 0
    /\ timeline = None
    /\ result = NotCalled
    /\ JournalIdle
    /\ ClientIdle
    /\ storage \in TokenFiles
    /\ now = Now0
    /\ token_result = NotCalled
    /\ refresh_posts = <<>>

\* One call of get_access_token, from the load to the return or the raise.
GetAccessToken ==
    /\ Len(refresh_posts) < MaxRefreshes
    /\ \E answer \in EndpointAnswers, saved \in BOOLEAN :
          LET loaded == load(storage)
              t == Val(Val(loaded.value))
              refreshed == refresh_access_token(t, answer, now,
                                                Len(refresh_posts) + 2)
              post == [refresh_token |-> t.refresh_token, answer |-> answer.kind]
          IN  IF loaded.raised # "none"
              THEN /\ token_result' = Raised(loaded.raised)
                   /\ UNCHANGED <<storage, refresh_posts>>
              ELSE IF Val(loaded.value) = None
              THEN /\ token_result' = Raised("LoginRequiredError")
                   /\ UNCHANGED <<storage, refresh_posts>>
              ELSE IF ~has_scopes(t, RequiredScopes)
              THEN /\ token_result' = Raised("LoginRequiredError")
                   /\ UNCHANGED <<storage, refresh_posts>>
              ELSE IF ~requires_refresh(t, now)
              THEN /\ token_result' = Returned(t.access_token)
                   /\ UNCHANGED <<storage, refresh_posts>>
              ELSE /\ refresh_posts' = Append(refresh_posts, post)
                   /\ IF refreshed.raised # "none"
                      THEN /\ token_result' = Raised(translate(refreshed.raised))
                           /\ UNCHANGED storage
                      ELSE IF ~saved
                      THEN /\ token_result' = Raised("AuthStorageError")
                           /\ UNCHANGED storage
                      ELSE /\ storage' = refreshed.value
                           /\ token_result' =
                                  Returned(Val(refreshed.value).access_token)
    /\ UNCHANGED now
    /\ UNCHANGED <<builder_vars, journal_vars, client_vars>>

\* Time passes between two calls.
Tick ==
    /\ now < Now0 + MaxTicks
    /\ now' = now + 1
    /\ UNCHANGED <<storage, token_result, refresh_posts>>
    /\ UNCHANGED <<builder_vars, journal_vars, client_vars>>

AuthNext == GetAccessToken \/ Tick

AuthSpec == AuthInit /\ [][AuthNext]_vars


\* The stored token, where the file holds a valid one.
HoldsToken == storage # None /\ valid_token(Val(storage))

Stored == Val(storage)

NoRefresh == refresh_posts' = refresh_posts

LastPost == refresh_posts'[Len(refresh_posts')]

\* One refresh was requested, with the stored refresh token.
Refreshed ==
    /\ Len(refresh_posts') = Len(refresh_posts) + 1
    /\ SubSeq(refresh_posts', 1, Len(refresh_posts)) = refresh_posts
    /\ LastPost.refresh_token = Stored.refresh_token

\* The new token was saved and its access token returned.
NewTokenSavedAndReturned ==
    /\ storage' # storage
    /\ storage' # None
    /\ valid_token(Val(storage'))
    /\ Val(storage').access_token # Stored.access_token
    /\ Val(storage').expires_at > now
    /\ token_result' = Returned(Val(storage').access_token)

\* The cases of the claim that need no refresh.
WithoutRefresh ==
    /\ storage = None =>
          /\ token_result' = Raised("LoginRequiredError")
          /\ NoRefresh
          /\ storage' = storage
    /\ (HoldsToken /\ ~(RequiredScopes \subseteq scope_set(Stored))) =>
          /\ token_result' = Raised("LoginRequiredError")
          /\ NoRefresh
          /\ storage' = storage
    /\ (HoldsToken /\ RequiredScopes \subseteq scope_set(Stored)
            /\ Stored.expires_at - now > 300) =>
          /\ token_result' = Returned(Stored.access_token)
          /\ NoRefresh
          /\ storage' = storage

NearExpiry ==
    /\ HoldsToken
    /\ RequiredScopes \subseteq scope_set(Stored)
    /\ Stored.expires_at - now <= 300

\* C30 as stated: without a stored token or without a required scope,
\* LoginRequiredError and no refresh; with a token more than 300 s from
\* expiry, its access_token and storage unchanged; with a token within
\* 300 s of expiry one refresh, then either the new token saved and
\* returned or, the refresh having failed, LoginRequiredError and the
\* stored token unchanged.
C30_GetAccessToken ==
    [][GetAccessToken =>
          /\ WithoutRefresh
          /\ NearExpiry =>
                /\ Refreshed
                /\ \/ NewTokenSavedAndReturned
                   \/ /\ token_result' = Raised("LoginRequiredError")
                      /\ storage' = storage]_vars

\* C30 amended: as stated, except that a refresh failing with a network
\* error raises AuthNetworkError where one failing with an OAuth error
\* raises LoginRequiredError, and that a failed save of the new token
\* raises AuthStorageError; in all three the stored token is unchanged.
\* (A payload that makes no valid TokenSet is a refresh failing with an
\* OAuth error.)
C30_GetAccessTokenAmended ==
    [][GetAccessToken =>
          /\ WithoutRefresh
          /\ NearExpiry =>
                /\ Refreshed
                /\ \/ /\ LastPost.answer = "payload"
                      /\ NewTokenSavedAndReturned
                   \/ /\ LastPost.answer = "payload"
                      /\ token_result' \in {Raised("AuthStorageError"),
                                            Raised("LoginRequiredError")}
                      /\ storage' = storage
                   \/ /\ LastPost.answer = "oauth_error"
                      /\ token_result' = Raised("LoginRequiredError")
                      /\ storage' = storage
                   \/ /\ LastPost.answer = "network_error"
                      /\ token_result' = Raised("AuthNetworkError")
                      /\ storage' = storage]_vars

\* A second call found the refreshed token exactly 300 s from expiry,
\* refreshed again and the token endpoint could not be reached.
C30_Witness ==
    /\ Len(refresh_posts) = 2
    /\ refresh_posts[1].answer = "payload"
    /\ refresh_posts[2].answer = "network_error"
    /\ refresh_posts[2].refresh_token = 2
    /\ token_result = Raised("AuthNetworkError")
    /\ Val(storage).access_token = 2
    /\ Val(storage).expires_at - now = 300

====
